---- MODULE Spec2Model ----
(***************************************************************************)
(* Model of the rustris frontend's runtime version manager                 *)
(* (WineRunnerManager.tsx, ProtonDownloader.tsx, WineService.ts).          *)
(*                                                                         *)
(* Text is modelled as a sequence of chunks.  A chunk is an indivisible    *)
(* piece of text ("/", " ", "(", ")", "rustris", "GE1", ...); no chunk     *)
(* shares characters with another, so the substring, suffix and split      *)
(* tests of the code give the same answer on the chunk sequence as on the  *)
(* text it stands for.                                                     *)
(***************************************************************************)
EXTENDS Integers, Sequences, FiniteSets, Bags, TLC

\* An optional value (T | null): None, or Some(x).
None == <<>>

Some(x) == <<x>>

(***************************************************************************)
(* String primitives used by the code.                                     *)
(***************************************************************************)

\* String.prototype.indexOf: least position of sub in s, 0 when absent.
IndexOf(s, sub) ==
  LET hits == {i \in 1..(Len(s) - Len(sub) + 1) : SubSeq(s, i, i + Len(sub) - 1) = sub}
  IN IF hits = {} THEN 0 ELSE CHOOSE i \in hits : \A j \in hits : i <= j

\* String.prototype.includes
Includes(s, sub) == IndexOf(s, sub) # 0

\* String.prototype.endsWith
EndsWith(s, suf) ==
  /\ Len(suf) <= Len(s)
  /\ SubSeq(s, Len(s) - Len(suf) + 1, Len(s)) = suf

\* s.split(sep)[0]: the text before the first occurrence of sep (all of s when
\* sep does not occur).
SplitFirst(s, sep) ==
  IF IndexOf(s, sep) = 0 THEN s ELSE SubSeq(s, 1, IndexOf(s, sep) - 1)

\* The separator of display_name.split(' (').
AnnotationSep == <<" ", "(">>

\* The marker canDelete looks for.
OwnMarker == <<"rustris">>

(***************************************************************************)
(* Reconciliation as the render of WineRunnerManager computes it.          *)
(***************************************************************************)

\* cleanName of getInstalledPath / ProtonDownloader.isInstalled
CleanName(display_name) == SplitFirst(display_name, AnnotationSep)

\* The name comparison of getInstalledPath and of ProtonDownloader.isInstalled.
NameMatches(display_name, release) ==
  \/ CleanName(display_name) = release.name
  \/ CleanName(display_name) = release.tag_name

\* The path comparison of getInstalledPath.
PathMatches(path, release) == EndsWith(path, release.tag_name)

\* The condition of the if inside getInstalledPath's loop.
Matches(installed, release) ==
  \/ NameMatches(installed.display_name, release)
  \/ PathMatches(installed.path, release)

\* getInstalledPath: the path of the first installed version, in list order,
\* that matches; null when the loop ends without a match.
RECURSIVE ScanFrom(_, _, _)
ScanFrom(installedList, release, i) ==
  IF i > Len(installedList) THEN None
  ELSE IF Matches(installedList[i], release) THEN Some(installedList[i].path)
  ELSE ScanFrom(installedList, release, i + 1)

getInstalledPath(installedList, release) == ScanFrom(installedList, release, 1)

\* canDelete
canDelete(path) == Includes(path, OwnMarker)

(***************************************************************************)
(* The texts the model draws its inputs from.                              *)
(***************************************************************************)

\* The manager's exclusive installation root, "/rustris".
ExclusiveRoot == <<"/", "rustris">>

TagGE1 == <<"GE1">>

TagGE2 == <<"GE2">>

TagBeta == <<"GE1b">>

\* Releases of the upstream catalog: tag_name and name (the other fields of
\* GeProtonRelease take no part in any decision of the manager).
RelGE1 == [tag_name |-> TagGE1, name |-> <<"GE1">>]

RelGE2 == [tag_name |-> TagGE2, name |-> <<"GE2">>]

RelBeta == [tag_name |-> TagBeta, name |-> <<"GE1", " ", "(", "beta", ")">>]

ReleasePool == {RelGE1, RelGE2, RelBeta}

\* "/rustris/<tag>": the directory a download of tag installs into.
InstallPath(tag) == ExclusiveRoot \o <<"/">> \o tag

\* The scanner's entry for a version installed by the manager:
\* "<tag> (Rustris)" at "/rustris/<tag>".
InstalledEntry(tag) ==
  [path |-> InstallPath(tag), display_name |-> tag \o <<" ", "(", "Rustris", ")">>]

\* "/steam/GE1", "GE1 (Steam)": an external install of GE1.
SteamGE1 ==
  [path |-> <<"/", "steam", "/", "GE1">>, display_name |-> <<"GE1", " ", "(", "Steam", ")">>]

\* "/opt/GE1", "Vendor": external, recognised by its directory name only.
VendorGE1 == [path |-> <<"/", "opt", "/", "GE1">>, display_name |-> <<"Vendor">>]

\* "/opt/xGE1", "xGE1": a different build whose directory name ends in "GE1".
OtherXGE1 == [path |-> <<"/", "opt", "/", "x", "GE1">>, display_name |-> <<"x", "GE1">>]

\* "/steam/rustris/GE2", "GE2 (Steam)": a Steam directory with "rustris" in its path.
SteamRustrisGE2 ==
  [path |-> <<"/", "steam", "/", "rustris", "/", "GE2">>,
   display_name |-> <<"GE2", " ", "(", "Steam", ")">>]

\* "/rustrisx/GE2", "GE2 (Old)": a sibling of the root.
SiblingGE2 ==
  [path |-> <<"/", "rustris", "x", "/", "GE2">>,
   display_name |-> <<"GE2", " ", "(", "Old", ")">>]

\* "/rustris/../steam/GE2", "GE2": a parent-traversal path.
TraversalGE2 ==
  [path |-> <<"/", "rustris", "/", "..", "/", "steam", "/", "GE2">>,
   display_name |-> <<"GE2">>]

\* "/rustris/b", "GE1 (beta) (Rustris)": the beta build, annotated by the scanner.
OwnedBeta ==
  [path |-> <<"/", "rustris", "/", "b">>,
   display_name |-> <<"GE1", " ", "(", "beta", ")", " ", "(", "Rustris", ")">>]

\* "/rustris/zz", "Other": an owned install no release corresponds to.
OwnedOther == [path |-> <<"/", "rustris", "/", "zz">>, display_name |-> <<"Other">>]

InstalledPool ==
  {InstalledEntry(TagGE1), InstalledEntry(TagGE2), SteamGE1, VendorGE1, OtherXGE1,
   SteamRustrisGE2, SiblingGE2, TraversalGE2, OwnedBeta, OwnedOther}

\* Longest catalog and longest scan result the reconciliation is run on.
MaxReleases == 2

MaxInstalled == 2

\* The sequences without repetition of at most n elements of S (tags and paths
\* are unique).
ListsOf(S, n) ==
  UNION {{q \in [1..k -> S] : \A i, j \in 1..k : i # j => q[i] # q[j]} : k \in 0..n}

(***************************************************************************)
(* State.                                                                  *)
(***************************************************************************)

VARIABLES
  mounted,               \* the component's effect has run for the first time
  releases,              \* useState<GeProtonRelease[]>
  allInstalledVersions,  \* useState<WineVersionInfo[]>
  loading,               \* useState(false)
  downloadingTag,        \* useState<string | null>
  downloadProgress,      \* useState<DownloadProgress | null>
  successMessage,        \* useState<string>
  errorMessage,          \* useState<string>
  deleteConfirmOpen,     \* useState(false)
  pendingDelete,         \* useState<{release, path} | null>
  tasks,                 \* bag of the async handler invocations not yet returned
  subs,                  \* the "download-progress" subscriptions made by the effect
  catalog,               \* backend: what fetch_ge_proton_releases answers
  disk,                  \* backend: the installed versions a scan finds, in scan order
  deleteCalls,           \* history: the paths delete_proton_version was invoked with
  downloadCalls,         \* history: the tags download_ge_proton was invoked with
  scratch                \* backend: the temporary files and staging directories on disk

\* App, InitialSetup and the ProtonDownloader it shows.
VARIABLES
  lutrisAvailability,    \* App: useState<LutrisAvailability | null>, its is_available
  setupComplete,         \* App: useState<boolean | null>
  checkingSetup,         \* App: useState(true)
  appPc,                 \* App: the await checkLutrisAvailability is suspended at
  lutrisInstalled,       \* backend: what check_lutris_availability reports
  globalDefault,         \* Lutris configuration: the global default version, "" if none
  pkMounted,             \* ProtonDownloader is on screen
  pkReleases,            \* ProtonDownloader: useState<GeProtonRelease[]>
  selectedRelease,       \* ProtonDownloader: useState<string>("")
  pkLoading,             \* ProtonDownloader: useState(true)
  downloading,           \* ProtonDownloader: useState(false)
  pkError,               \* ProtonDownloader: useState<string | null>
  installedVersions,     \* ProtonDownloader: the installedVersions prop
  pkTasks,               \* bag of the picker's and InitialSetup's async invocations
  pickerCalls            \* history: the tags the picker invoked download_ge_proton with

appVars ==
  <<lutrisAvailability, setupComplete, checkingSetup, appPc, lutrisInstalled,
    globalDefault, pkMounted, pkReleases, selectedRelease, pkLoading, downloading,
    pkError, installedVersions, pkTasks, pickerCalls>>

\* GameProvider, Library, GameDetail and SettingsModal.
VARIABLES
  games,                 \* GameProvider: useState<Game[]>, slug and wine_version
  selectedGame,          \* GameProvider: useState<Game | null>
  libPc,                 \* GameProvider: the await loadGames is suspended at
  gameWine,              \* Lutris configuration: each game's wine version, "" if none
  selectedWineVersion,   \* GameDetail: useState<string>("")
  gdTasks,               \* bag of GameDetail's reads of the default and override writes
  written,               \* history: the games an override write has succeeded for
  settingsOpen,          \* Library: settingsModalOpen
  defaultWineVersion,    \* SettingsModal: useState<string>("")
  smTasks,               \* bag of SettingsModal's loads and writes of the default
  alerts                 \* history: the writes whose failure an alert() has reported

libVars ==
  <<games, selectedGame, libPc, gameWine, selectedWineVersion, gdTasks, written,
    settingsOpen, defaultWineVersion, smTasks, alerts>>

\* GameLog.
VARIABLES
  logMounted,            \* GameLog is on screen
  logSlug,               \* GameLog: the slug prop
  logRunning,            \* GameLog: the isRunning prop
  logLines,              \* GameLog: useState<string[]>([])
  listeners,             \* bag of the "game-log:<slug>" listeners the effect asked for
  received,              \* history: the lines handed to the handlers since the last clear
  lineNo,                \* backend: the number of log lines emitted so far
  logEvents              \* backend: the number of log events emitted so far

logVars ==
  <<logMounted, logSlug, logRunning, logLines, listeners, received, lineNo, logEvents>>

\* The state of WineRunnerManager and of the backend it talks to.
managerVars ==
  <<mounted, releases, allInstalledVersions, loading, downloadingTag, downloadProgress,
    successMessage, errorMessage, deleteConfirmOpen, pendingDelete, tasks, subs,
    catalog, disk, deleteCalls, downloadCalls, scratch>>

vars == <<managerVars, appVars, libVars, logVars>>

\* Bounds of the model.
MaxTasks == 3

MaxSubs == 2

\* Downloads and deletions the user starts in one run of Spec.
MaxDownloads == 1

MaxDeletes == 1

\* Downloads the user starts in one run of SpecDownloads.
MaxStarts == 2

\* Number of byte-level progress events of one download.
TotalChunks == 2

NoRelease == [tag_name |-> <<>>, name |-> <<>>]

NoSuccess == [kind |-> "", name |-> <<>>]

\* An invocation of an async handler, suspended at the await named by pc.
\*   loadData:       fetch -> scan
\*   handleDownload: download -> (loadData: fetch -> scan) -> refresh
\*   confirmDelete:  delete -> (loadData: fetch -> scan) -> refresh
\* read/snap: the scan's answer once the backend has read the disk;
\* sent: the progress events the backend has emitted for a download.
Task(kind, pc, rel, path, name) ==
  [kind |-> kind, pc |-> pc, rel |-> rel, path |-> path, name |-> name,
   read |-> FALSE, snap |-> <<>>, sent |-> 0]

LoadTask == Task("loadData", "fetch", NoRelease, <<>>, <<>>)

Put(bag, t) == bag (+) SetToBag({t})

Take(bag, t) == bag (-) SetToBag({t})

Running(kind, pc) == {t \in BagToSet(tasks) : t.kind = kind /\ t.pc = pc}

(***************************************************************************)
(* The render.                                                             *)
(***************************************************************************)

\* The rows of the unified release list: one per element of releases.map.
Row(release) ==
  LET installedPath == getInstalledPath(allInstalledVersions, release)
      isInstalled == installedPath # None
  IN [release |-> release,
      installedPath |-> installedPath,
      isInstalled |-> isInstalled,
      canDeleteThis |-> isInstalled /\ canDelete(installedPath[1]),
      isDownloading |-> downloadingTag = Some(release.tag_name)]

\* A list that shows installed releases only.
RECURSIVE MapRowsInstalledOnly(_)
MapRowsInstalledOnly(rels) ==
  IF rels = <<>> THEN <<>>
  ELSE (IF Row(Head(rels)).isInstalled THEN <<Row(Head(rels))>> ELSE <<>>)
         \o MapRowsInstalledOnly(Tail(rels))

RECURSIVE MapRows(_)
MapRows(rels) ==
  IF rels = <<>> THEN <<>> ELSE <<Row(Head(rels))>> \o MapRows(Tail(rels))

UnifiedList == MapRows(releases)

\* The action area of a row: the ternary chain of the render.
ActionOf(row) ==
  IF row.isDownloading THEN "progress"
  ELSE IF row.isInstalled /\ ~row.canDeleteThis THEN "external"
  ELSE IF row.isInstalled /\ row.canDeleteThis THEN "delete"
  ELSE "download"

\* Which of the three returns of the component is on screen.
LoadingView == loading

RetryView == ~loading /\ errorMessage # "" /\ releases = <<>>

ListView == mounted /\ ~LoadingView /\ ~RetryView

\* The list's buttons can be pressed: the delete dialog is modal.
ListEnabled == ListView /\ ~deleteConfirmOpen

(***************************************************************************)
(* The effect of useEffect(..., [downloadingTag]).                         *)
(***************************************************************************)

\* Cleanup of the previous run (unlisten.then(fn => fn())) and listen() of the new
\* one, whose handler closes over the value of downloadingTag of this render.
Resubscribe(tag) ==
  {[s EXCEPT !.dropped = TRUE] : s \in subs}
    \cup {[captured |-> tag, live |-> FALSE, dropped |-> FALSE]}

\* The state of WineRunnerManager after construction (the useState initial values).
InitWineRunnerManager ==
  /\ mounted = FALSE
  /\ releases = <<>>
  /\ allInstalledVersions = <<>>
  /\ loading = FALSE
  /\ downloadingTag = None
  /\ downloadProgress = None
  /\ successMessage = NoSuccess
  /\ errorMessage = ""
  /\ deleteConfirmOpen = FALSE
  /\ pendingDelete = None
  /\ tasks = EmptyBag
  /\ subs = {}
  /\ deleteCalls = <<>>
  /\ downloadCalls = <<>>
  /\ scratch = {}

\* The state of App after construction; InitialSetup and its picker are not shown.
InitApp ==
  /\ lutrisAvailability = None
  /\ setupComplete = None
  /\ checkingSetup = TRUE
  /\ appPc = "unmounted"
  /\ pkMounted = FALSE
  /\ pkReleases = <<>>
  /\ selectedRelease = <<>>
  /\ pkLoading = TRUE
  /\ downloading = FALSE
  /\ pkError = ""
  /\ installedVersions = <<>>
  /\ pkTasks = EmptyBag
  /\ pickerCalls = <<>>

\* Two games of the library.
Slugs == {"a", "b"}

\* The state of GameProvider, GameDetail and SettingsModal after construction.
InitLibrary ==
  /\ games = <<>>
  /\ selectedGame = None
  /\ libPc = "unmounted"
  /\ selectedWineVersion = <<>>
  /\ gdTasks = EmptyBag
  /\ written = {}
  /\ settingsOpen = FALSE
  /\ defaultWineVersion = <<>>
  /\ smTasks = EmptyBag
  /\ alerts = {}

\* The state of GameLog after construction, and a backend that has logged nothing.
InitGameLog ==
  /\ logMounted = FALSE
  /\ logSlug = "a"
  /\ logRunning = FALSE
  /\ logLines = <<>>
  /\ listeners = EmptyBag
  /\ received = <<>>
  /\ lineNo = 0
  /\ logEvents = 0

\* The manager on its own: the other components as constructed, Lutris present and
\* no global default written.
InitComponent ==
  /\ InitWineRunnerManager
  /\ InitApp
  /\ InitLibrary
  /\ InitGameLog
  /\ gameWine = [g \in Slugs |-> <<>>]
  /\ lutrisInstalled = TRUE
  /\ globalDefault = <<>>

\* The installed sets the manager starts from in the full model.
Disks ==
  {<<>>,
   <<SteamGE1>>,
   <<SteamRustrisGE2>>,
   <<SteamGE1, InstalledEntry(TagGE1)>>}

Init ==
  /\ InitComponent
  /\ catalog = <<RelGE1, RelGE2>>
  /\ disk \in Disks

\* The manager opened on every catalog and every scan result of the pools.
InitReconcile ==
  /\ InitComponent
  /\ catalog \in ListsOf(ReleasePool, MaxReleases)
  /\ disk \in ListsOf(InstalledPool, MaxInstalled)

(***************************************************************************)
(* loadData and its awaits.                                                *)
(***************************************************************************)

\* First run of the effect: loadData() and listen().
Mount ==
  /\ ~mounted
  /\ mounted' = TRUE
  /\ loading' = TRUE
  /\ errorMessage' = ""
  /\ tasks' = Put(tasks, LoadTask)
  /\ subs' = Resubscribe(downloadingTag)
  /\ UNCHANGED <<releases, allInstalledVersions, downloadingTag, downloadProgress,
                 successMessage, deleteConfirmOpen, pendingDelete, catalog, disk, deleteCalls, downloadCalls, scratch, appVars, libVars, logVars>>

\* The Retry button of the error view: onClick={loadData}.
Retry ==
  /\ mounted /\ RetryView
  /\ BagCardinality(tasks) < MaxTasks
  /\ loading' = TRUE
  /\ errorMessage' = ""
  /\ tasks' = Put(tasks, LoadTask)
  /\ UNCHANGED <<mounted, releases, allInstalledVersions, downloadingTag,
                 downloadProgress, successMessage, deleteConfirmOpen, pendingDelete,
                 subs, catalog, disk, deleteCalls, downloadCalls, scratch, appVars, libVars, logVars>>

\* Where an invocation goes once its loadData part has returned: a plain loadData is
\* over, handleDownload and confirmDelete go on to await refreshWineVersions().
AfterLoad(t) ==
  IF t.kind = "loadData" THEN Take(tasks, t)
  ELSE Put(Take(tasks, t), [t EXCEPT !.pc = "refresh", !.read = FALSE, !.snap = <<>>])

\* await fetchGeProtonReleases() resolves: setReleases, then getAvailableVersions().
FetchOk(t) ==
  /\ t.pc = "fetch"
  /\ releases' = catalog
  /\ tasks' = Put(Take(tasks, t), [t EXCEPT !.pc = "scan"])
  /\ UNCHANGED <<mounted, allInstalledVersions, loading, downloadingTag, downloadProgress,
                 successMessage, errorMessage, deleteConfirmOpen, pendingDelete, subs,
                 catalog, disk, deleteCalls, downloadCalls, scratch, appVars, libVars, logVars>>

\* await fetchGeProtonReleases() rejects: catch (showError), finally (setLoading(false)).
FetchFail(t) ==
  /\ t.pc = "fetch"
  /\ errorMessage' = "fetch"
  /\ loading' = FALSE
  /\ tasks' = AfterLoad(t)
  /\ UNCHANGED <<mounted, releases, allInstalledVersions, downloadingTag,
                 downloadProgress, successMessage, deleteConfirmOpen, pendingDelete, subs,
                 catalog, disk, deleteCalls, downloadCalls, scratch, appVars, libVars, logVars>>

\* The backend serves get_available_wine_versions: it reads the disk.
ScanRead(t) ==
  /\ t.pc = "scan" /\ ~t.read
  /\ tasks' = Put(Take(tasks, t), [t EXCEPT !.read = TRUE, !.snap = disk])
  /\ UNCHANGED <<mounted, releases, allInstalledVersions, loading, downloadingTag,
                 downloadProgress, successMessage, errorMessage, deleteConfirmOpen,
                 pendingDelete, subs, catalog, disk,
                 deleteCalls, downloadCalls, scratch, appVars, libVars, logVars>>

\* await getAvailableVersions() resolves: setAllInstalledVersions, finally.
ScanOk(t) ==
  /\ t.pc = "scan" /\ t.read
  /\ allInstalledVersions' = t.snap
  /\ loading' = FALSE
  /\ tasks' = AfterLoad(t)
  /\ UNCHANGED <<mounted, releases, downloadingTag, downloadProgress, successMessage,
                 errorMessage, deleteConfirmOpen, pendingDelete, subs, catalog, disk, deleteCalls, downloadCalls, scratch, appVars, libVars, logVars>>

\* await getAvailableVersions() rejects: catch (showError), finally.
ScanFail(t) ==
  /\ t.pc = "scan"
  /\ errorMessage' = "scan"
  /\ loading' = FALSE
  /\ tasks' = AfterLoad(t)
  /\ UNCHANGED <<mounted, releases, allInstalledVersions, downloadingTag,
                 downloadProgress, successMessage, deleteConfirmOpen, pendingDelete, subs,
                 catalog, disk, deleteCalls, downloadCalls, scratch, appVars, libVars, logVars>>

\* A timer of showError fires (setTimeout(() => setErrorMessage(""), 5000)).  While a
\* message is shown the timer of the showError that set it is pending, and a timer
\* firing on an empty message changes nothing: the pending timers need no count.
ErrorTimeout ==
  /\ errorMessage # ""
  /\ errorMessage' = ""
  /\ UNCHANGED <<mounted, releases, allInstalledVersions, loading, downloadingTag,
                 downloadProgress, successMessage, deleteConfirmOpen, pendingDelete,
                 tasks, subs, catalog, disk, deleteCalls, downloadCalls, scratch, appVars, libVars, logVars>>

\* A timer of showSuccess fires (setTimeout(() => setSuccessMessage(""), 3000)).
SuccessTimeout ==
  /\ successMessage # NoSuccess
  /\ successMessage' = NoSuccess
  /\ UNCHANGED <<mounted, releases, allInstalledVersions, loading, downloadingTag,
                 downloadProgress, errorMessage, deleteConfirmOpen, pendingDelete,
                 tasks, subs, catalog, disk, deleteCalls, downloadCalls, scratch, appVars, libVars, logVars>>

NextLoad ==
  \/ Mount
  \/ Retry
  \/ \E t \in BagToSet(tasks) : FetchOk(t)
  \/ \E t \in BagToSet(tasks) : FetchFail(t)
  \/ \E t \in BagToSet(tasks) : ScanRead(t)
  \/ \E t \in BagToSet(tasks) : ScanOk(t)
  \/ \E t \in BagToSet(tasks) : ScanFail(t)
  \/ ErrorTimeout

\* The manager opened on an arbitrary catalog and disk: loading and reconciling only.
SpecReconcile == InitReconcile /\ [][NextLoad]_vars

(***************************************************************************)
(* The backend, as far as the manager depends on it.                       *)
(***************************************************************************)

\* The segments of a path: the runs of chunks between "/".
RECURSIVE SegmentsFrom(_, _, _)
SegmentsFrom(path, i, cur) ==
  IF i > Len(path) THEN (IF cur = <<>> THEN <<>> ELSE <<cur>>)
  ELSE IF path[i] = "/"
    THEN (IF cur = <<>> THEN <<>> ELSE <<cur>>) \o SegmentsFrom(path, i + 1, <<>>)
  ELSE SegmentsFrom(path, i + 1, Append(cur, path[i]))

Segments(path) == SegmentsFrom(path, 1, <<>>)

\* The segments with every ".." resolved against the segment before it.
RECURSIVE Resolve(_, _)
Resolve(segs, acc) ==
  IF segs = <<>> THEN acc
  ELSE IF Head(segs) = <<"..">>
    THEN Resolve(Tail(segs), IF acc = <<>> THEN acc ELSE SubSeq(acc, 1, Len(acc) - 1))
  ELSE Resolve(Tail(segs), Append(acc, Head(segs)))

\* path is a strict descendant of the exclusive installation root.
UnderRoot(path) ==
  LET p == Resolve(Segments(path), <<>>)
      r == Segments(ExclusiveRoot)
  IN Len(p) > Len(r) /\ SubSeq(p, 1, Len(r)) = r

\* The disk after tag has been installed: a directory named after the tag under the
\* root, once.
Installed(d, tag) ==
  IF \E i \in 1..Len(d) : d[i].path = InstallPath(tag) THEN d
  ELSE Append(d, InstalledEntry(tag))

\* The disk after the directory at path has been removed.
Removed(d, path) == SelectSeq(d, LAMBDA v : v.path # path)

\* The temporary download file (outside the root) and the staging directory (inside
\* it) of the pipeline run that downloads tag.
TempFile(tag) == [kind |-> "tmp", tag |-> tag]

StagingDir(tag) == [kind |-> "staging", tag |-> tag]

\* The scratch files once the pipeline has emitted its k-th event for tag: the
\* temporary file while streaming, the staging directory as well while extracting.
Streaming(s, tag, k) ==
  IF k <= TotalChunks THEN s \cup {TempFile(tag)}
  ELSE s \cup {TempFile(tag), StagingDir(tag)}

\* A cleanup that removes the temporary file and forgets the staging directory.
CleanupTempOnly(s, tag) == s \ {TempFile(tag)}

\* The pipeline's cleanup, on the way to Done and on the failure path alike.
Cleanup(s, tag) == s \ {TempFile(tag), StagingDir(tag)}

(***************************************************************************)
(* handleDownload.                                                         *)
(***************************************************************************)

\* The payload of the k-th "download-progress" event of a download: byte counts
\* for k <= TotalChunks, the extraction notice after them.
Payload(k) ==
  IF k <= TotalChunks
  THEN [progress |-> (k * 100) \div TotalChunks, downloaded |-> k,
        total |-> TotalChunks, extracting |-> FALSE]
  ELSE [progress |-> 100, downloaded |-> TotalChunks,
        total |-> TotalChunks, extracting |-> TRUE]

\* onClick={() => handleDownload(release)} of a row's Download button.  The state
\* change re-runs the effect (downloadingTag is its dependency): loadData() again
\* and a new subscription.
ClickDownload(i) ==
  LET row == UnifiedList[i] IN
  /\ ListEnabled
  /\ ActionOf(row) = "download"
  /\ BagCardinality(tasks) + 2 <= MaxTasks
  /\ downloadCalls' = Append(downloadCalls, row.release.tag_name)
  /\ Cardinality(Resubscribe(Some(row.release.tag_name))) <= MaxSubs
  /\ downloadingTag' = Some(row.release.tag_name)
  /\ downloadProgress' = None
  /\ errorMessage' = ""
  /\ loading' = TRUE
  /\ subs' = Resubscribe(Some(row.release.tag_name))
  /\ tasks' = Put(Put(tasks, Task("handleDownload", "download", row.release, <<>>, <<>>)),
                  LoadTask)
  /\ UNCHANGED <<mounted, releases, allInstalledVersions, successMessage,
                 deleteConfirmOpen, pendingDelete, catalog,
                 disk, deleteCalls, scratch, appVars, libVars, logVars>>

\* The backend emits the next "download-progress" event of a download; the handler
\* of every registered subscription runs, and stores the payload when the event's
\* tag is the downloadingTag its closure holds.
ProgressEvent(t) ==
  /\ t.kind = "handleDownload" /\ t.pc = "download"
  /\ t.sent <= TotalChunks
  /\ tasks' = Put(Take(tasks, t), [t EXCEPT !.sent = t.sent + 1])
  /\ downloadProgress' =
       IF \E s \in subs : s.live /\ s.captured = Some(t.rel.tag_name)
       THEN Some(Payload(t.sent + 1))
       ELSE downloadProgress
  /\ scratch' = Streaming(scratch, t.rel.tag_name, t.sent + 1)
  /\ UNCHANGED <<mounted, releases, allInstalledVersions, loading, downloadingTag,
                 successMessage, errorMessage, deleteConfirmOpen, pendingDelete, subs,
                 catalog, disk, deleteCalls, downloadCalls, appVars, libVars, logVars>>

\* await downloadGeProton() resolves: showSuccess, then await loadData().
DownloadOk(t) ==
  /\ t.kind = "handleDownload" /\ t.pc = "download"
  /\ t.sent = TotalChunks + 1
  /\ disk' = Installed(disk, t.rel.tag_name)
  /\ scratch' = Cleanup(scratch, t.rel.tag_name)
  /\ successMessage' = [kind |-> "installed", name |-> t.rel.name]
  /\ loading' = TRUE
  /\ errorMessage' = ""
  /\ tasks' = Put(Take(tasks, t), [t EXCEPT !.pc = "fetch"])
  /\ UNCHANGED <<mounted, releases, allInstalledVersions, downloadingTag,
                 downloadProgress, deleteConfirmOpen, pendingDelete, subs, catalog,
                 deleteCalls, downloadCalls, appVars, libVars, logVars>>

\* The finally block of handleDownload for invocation t, with err the message the
\* catch block has shown ("" when the try block returned).  setDownloadingTag(null)
\* re-runs the effect when a tag was set: its loadData() clears the error message
\* again.
Finally(t, err) ==
  /\ downloadingTag' = None
  /\ downloadProgress' = None
  /\ IF downloadingTag # None
     THEN /\ Cardinality(Resubscribe(None)) <= MaxSubs
          /\ subs' = Resubscribe(None)
          /\ loading' = TRUE
          /\ errorMessage' = ""
          /\ tasks' = Put(Take(tasks, t), LoadTask)
     ELSE /\ subs' = subs
          /\ loading' = loading
          /\ errorMessage' = IF err = "" THEN errorMessage ELSE err
          /\ tasks' = Take(tasks, t)

\* await downloadGeProton() rejects, the pipeline having cleaned up: catch
\* (showError), finally.
DownloadFail(t) ==
  /\ t.kind = "handleDownload" /\ t.pc = "download"
  /\ Finally(t, "download")
  /\ scratch' = Cleanup(scratch, t.rel.tag_name)
  /\ UNCHANGED <<mounted, releases, allInstalledVersions, successMessage,
                 deleteConfirmOpen, pendingDelete, catalog, disk,
                 deleteCalls, downloadCalls, appVars, libVars, logVars>>

\* await refreshWineVersions() returns (it catches its own failure); onRunnersChanged
\* is not awaited.  handleDownload runs its finally block, confirmDelete is over.
RefreshDone(t) ==
  /\ t.pc = "refresh"
  /\ IF t.kind = "handleDownload"
     THEN Finally(t, "")
     ELSE /\ tasks' = Take(tasks, t)
          /\ UNCHANGED <<downloadingTag, downloadProgress, subs, loading, errorMessage>>
  /\ UNCHANGED <<mounted, releases, allInstalledVersions, successMessage,
                 deleteConfirmOpen, pendingDelete, catalog,
                 disk, deleteCalls, downloadCalls, scratch, appVars, libVars, logVars>>

\* The backend registers a subscription asked for by listen().
SubLive(s) ==
  /\ ~s.live
  /\ subs' = (subs \ {s}) \cup {[s EXCEPT !.live = TRUE]}
  /\ UNCHANGED <<mounted, releases, allInstalledVersions, loading, downloadingTag,
                 downloadProgress, successMessage, errorMessage, deleteConfirmOpen,
                 pendingDelete, tasks, catalog, disk,
                 deleteCalls, downloadCalls, scratch, appVars, libVars, logVars>>

\* The cleanup's unlisten takes effect: it runs once the listen() promise of the
\* dropped subscription has resolved.
SubGone(s) ==
  /\ s.live /\ s.dropped
  /\ subs' = subs \ {s}
  /\ UNCHANGED <<mounted, releases, allInstalledVersions, loading, downloadingTag,
                 downloadProgress, successMessage, errorMessage, deleteConfirmOpen,
                 pendingDelete, tasks, catalog, disk,
                 deleteCalls, downloadCalls, scratch, appVars, libVars, logVars>>

(***************************************************************************)
(* handleDelete, confirmDelete, cancelDelete.                              *)
(***************************************************************************)

\* onClick={() => handleDelete(release, installedPath)} of a row's Delete button.
ClickDelete(i) ==
  LET row == UnifiedList[i] IN
  /\ ListEnabled
  /\ ActionOf(row) = "delete"
  /\ pendingDelete' = Some([release |-> row.release, path |-> row.installedPath[1]])
  /\ deleteConfirmOpen' = TRUE
  /\ UNCHANGED <<mounted, releases, allInstalledVersions, loading, downloadingTag,
                 downloadProgress, successMessage, errorMessage, tasks, subs,
                 catalog, disk, deleteCalls, downloadCalls, scratch, appVars, libVars, logVars>>

\* allInstalledVersions.find(v => v.path === path ||
\*   v.display_name.includes(release.name))?.display_name || release.name
RECURSIVE FindName(_, _, _, _)
FindName(installedList, release, path, i) ==
  IF i > Len(installedList) THEN release.name
  ELSE IF \/ installedList[i].path = path
          \/ Includes(installedList[i].display_name, release.name)
    THEN (IF installedList[i].display_name = <<>> THEN release.name
          ELSE installedList[i].display_name)
  ELSE FindName(installedList, release, path, i + 1)

\* The dialog's Delete button: confirmDelete up to its await, which invokes
\* delete_proton_version with the pending path.
ConfirmDelete ==
  /\ ListView /\ deleteConfirmOpen
  /\ pendingDelete # None
  /\ BagCardinality(tasks) < MaxTasks
  /\ LET pd == pendingDelete[1] IN
     /\ tasks' = Put(tasks, Task("confirmDelete", "delete", pd.release, pd.path,
                                 FindName(allInstalledVersions, pd.release, pd.path, 1)))
     /\ deleteCalls' = Append(deleteCalls, pd.path)
  /\ deleteConfirmOpen' = FALSE
  /\ pendingDelete' = None
  /\ UNCHANGED <<mounted, releases, allInstalledVersions, loading, downloadingTag,
                 downloadProgress, successMessage, errorMessage, subs, catalog, disk,
                 downloadCalls, scratch, appVars, libVars, logVars>>

\* A dialog that closes and keeps the request it was opened for.
CancelKeepsRequest ==
  /\ ListView /\ deleteConfirmOpen
  /\ deleteConfirmOpen' = FALSE
  /\ UNCHANGED <<mounted, releases, allInstalledVersions, loading, downloadingTag,
                 downloadProgress, successMessage, errorMessage, tasks, subs,
                 catalog, disk, deleteCalls, downloadCalls, scratch, pendingDelete, appVars, libVars, logVars>>

\* The dialog's Cancel button and onClose.
CancelDelete ==
  /\ ListView /\ deleteConfirmOpen
  /\ deleteConfirmOpen' = FALSE
  /\ pendingDelete' = None
  /\ UNCHANGED <<mounted, releases, allInstalledVersions, loading, downloadingTag,
                 downloadProgress, successMessage, errorMessage, tasks, subs,
                 catalog, disk, deleteCalls, downloadCalls, scratch, appVars, libVars, logVars>>

\* await deleteProtonVersion() resolves: the backend removes only what lies under
\* the root; then showSuccess and await loadData().
DeleteOk(t) ==
  /\ t.kind = "confirmDelete" /\ t.pc = "delete"
  /\ UnderRoot(t.path)
  /\ disk' = Removed(disk, t.path)
  /\ successMessage' = [kind |-> "deleted", name |-> t.name]
  /\ loading' = TRUE
  /\ errorMessage' = ""
  /\ tasks' = Put(Take(tasks, t), [t EXCEPT !.pc = "fetch"])
  /\ UNCHANGED <<mounted, releases, allInstalledVersions, downloadingTag,
                 downloadProgress, deleteConfirmOpen, pendingDelete, subs, catalog, deleteCalls, downloadCalls, scratch, appVars, libVars, logVars>>

\* await deleteProtonVersion() rejects: catch (showError).
DeleteFail(t) ==
  /\ t.kind = "confirmDelete" /\ t.pc = "delete"
  /\ errorMessage' = "delete"
  /\ tasks' = Take(tasks, t)
  /\ UNCHANGED <<mounted, releases, allInstalledVersions, loading, downloadingTag,
                 downloadProgress, successMessage, deleteConfirmOpen, pendingDelete,
                 subs, catalog, disk, deleteCalls, downloadCalls, scratch, appVars, libVars, logVars>>

Next ==
  \/ Mount
  \/ Retry
  \/ \E t \in BagToSet(tasks) : FetchOk(t)
  \/ \E t \in BagToSet(tasks) : FetchFail(t)
  \/ \E t \in BagToSet(tasks) : ScanRead(t)
  \/ \E t \in BagToSet(tasks) : ScanOk(t)
  \/ \E t \in BagToSet(tasks) : ScanFail(t)
  \/ ErrorTimeout
  \/ SuccessTimeout
  \/ \E i \in 1..Len(releases) : Len(downloadCalls) < MaxDownloads /\ ClickDownload(i)
  \/ \E t \in BagToSet(tasks) : ProgressEvent(t)
  \/ \E t \in BagToSet(tasks) : DownloadOk(t)
  \/ \E t \in BagToSet(tasks) : DownloadFail(t)
  \/ \E t \in BagToSet(tasks) : RefreshDone(t)
  \/ \E s \in subs : SubLive(s)
  \/ \E s \in subs : SubGone(s)
  \/ \E i \in 1..Len(releases) : ClickDelete(i)
  \/ Len(deleteCalls) < MaxDeletes /\ ConfirmDelete
  \/ CancelDelete
  \/ \E t \in BagToSet(tasks) : DeleteOk(t)
  \/ \E t \in BagToSet(tasks) : DeleteFail(t)

Spec == Init /\ [][Next]_vars

\* Two downloads started from an empty installation root, nothing deleted.
InitDownloads ==
  /\ InitComponent
  /\ catalog = <<RelGE1, RelGE2>>
  /\ disk = <<>>

NextDownloads ==
  \/ Mount
  \/ Retry
  \/ \E t \in BagToSet(tasks) : FetchOk(t)
  \/ \E t \in BagToSet(tasks) : FetchFail(t)
  \/ \E t \in BagToSet(tasks) : ScanRead(t)
  \/ \E t \in BagToSet(tasks) : ScanOk(t)
  \/ \E t \in BagToSet(tasks) : ScanFail(t)
  \/ ErrorTimeout
  \/ SuccessTimeout
  \/ \E i \in 1..Len(releases) : Len(downloadCalls) < MaxStarts /\ ClickDownload(i)
  \/ \E t \in BagToSet(tasks) : ProgressEvent(t)
  \/ \E t \in BagToSet(tasks) : DownloadOk(t)
  \/ \E t \in BagToSet(tasks) : DownloadFail(t)
  \/ \E t \in BagToSet(tasks) : RefreshDone(t)
  \/ \E s \in subs : SubLive(s)
  \/ \E s \in subs : SubGone(s)

SpecDownloads == InitDownloads /\ [][NextDownloads]_vars

\* The manager opened on the catalogs and scan results whose names carry at most one
\* annotation and whose directory names are whole tags.
PlainInstalledPool ==
  {InstalledEntry(TagGE1), InstalledEntry(TagGE2), SteamGE1, VendorGE1,
   SteamRustrisGE2, SiblingGE2, TraversalGE2, OwnedOther}

InitPlain ==
  /\ InitComponent
  /\ catalog \in ListsOf({RelGE1, RelGE2}, MaxReleases)
  /\ disk \in ListsOf(PlainInstalledPool, MaxInstalled)

SpecPlain == InitPlain /\ [][NextLoad]_vars

(***************************************************************************)
(* The matching rules and the ownership test as the specification words    *)
(* them.                                                                   *)
(***************************************************************************)

\* Greatest position of sub in s, 0 when absent.
LastIndexOf(s, sub) ==
  LET hits == {i \in 1..(Len(s) - Len(sub) + 1) : SubSeq(s, i, i + Len(sub) - 1) = sub}
  IN IF hits = {} THEN 0 ELSE CHOOSE i \in hits : \A j \in hits : i >= j

\* A display name without its trailing parenthetical annotation " (...)".
StripTrailingAnnotation(name) ==
  IF /\ name # <<>>
     /\ name[Len(name)] = ")"
     /\ LastIndexOf(name, AnnotationSep) # 0
  THEN SubSeq(name, 1, LastIndexOf(name, AnnotationSep) - 1)
  ELSE name

\* Rule 1, exact match.
ExactRule(installed, release) ==
  \/ StripTrailingAnnotation(installed.display_name) = release.name
  \/ StripTrailingAnnotation(installed.display_name) = release.tag_name

\* Rule 2, suffix match: the final segment of the path is the tag.
SuffixRule(installed, release) ==
  LET segs == Segments(installed.path)
  IN segs # <<>> /\ segs[Len(segs)] = release.tag_name

Versions == {allInstalledVersions[i] : i \in 1..Len(allInstalledVersions)}

Rows == {UnifiedList[i] : i \in 1..Len(UnifiedList)}

\* The loads are over and the list is on screen.
Settled == mounted /\ tasks = EmptyBag /\ ListView

(***************************************************************************)
(* Claims.                                                                 *)
(***************************************************************************)

\* C1: every delete command the manager issues is for a path that is a strict
\* descendant of the exclusive installation root; for any other path (external
\* roots, siblings of the root, parent-traversal paths) no delete command is issued.
C1_DeleteOnlyUnderRoot ==
  \A i \in 1..Len(deleteCalls) : UnderRoot(deleteCalls[i])

\* The download invocations whose downloadGeProton call has not settled.
InFlight == Running("handleDownload", "download")

\* C2: single flight: at most one download is in flight at any time.
C2_SingleFlight ==
  \A t, u \in InFlight : t = u /\ CopiesIn(t, tasks) = 1

\* C3: a start-download request made while a session is active leaves the session's
\* state (the active tag and the recorded progress) as it was.
C3_SecondStartLeavesSession ==
  [][(downloadingTag # None /\ InFlight # {} /\ Len(downloadCalls') > Len(downloadCalls))
       => (downloadingTag' = downloadingTag /\ downloadProgress' = downloadProgress)]_vars

\* C4: the unified list has exactly one row per release, in the order of the release
\* list; installed versions that match no release add no row.
C4_OneRowPerRelease ==
  /\ Len(UnifiedList) = Len(releases)
  /\ \A i \in 1..Len(releases) : UnifiedList[i].release = releases[i]

\* C4 witness: two releases are listed while an installed version matches neither
\* and another release is not installed.
C4_Witness ==
  /\ Settled
  /\ Len(releases) = 2
  /\ \E v \in Versions : \A i \in 1..Len(releases) : ~Matches(v, releases[i])
  /\ \E row \in Rows : ~row.isInstalled

\* C5: the name comparison of the code accepts an installed version for a release
\* exactly when its display name without the trailing annotation equals the
\* release's display name or tag.
C5_ExactMatchRule ==
  \A v \in Versions : \A i \in 1..Len(releases) :
    NameMatches(v.display_name, releases[i]) <=> ExactRule(v, releases[i])

\* C6: the path comparison of the code accepts an installed version for a release
\* exactly when the final segment of its path is the release tag.
C6_SuffixMatchRule ==
  \A v \in Versions : \A i \in 1..Len(releases) :
    PathMatches(v.path, releases[i]) <=> SuffixRule(v, releases[i])

\* C7: when some installed version satisfies the exact rule for a release, the
\* row's installed path is the path of a version that satisfies the exact rule.
C7_ExactRuleFirst ==
  \A row \in Rows :
    (\E v \in Versions : ExactRule(v, row.release))
      => \E v \in Versions : ExactRule(v, row.release) /\ row.installedPath = Some(v.path)

\* C8: when one exact match lies under the exclusive root and another outside it, the
\* row shows the one under the root and is deletable, whatever the scan order.
C8_OwnedDuplicatePreferred ==
  \A row \in Rows :
    (\E v, w \in Versions :
        /\ ExactRule(v, row.release) /\ UnderRoot(v.path)
        /\ ExactRule(w, row.release) /\ ~UnderRoot(w.path))
      => /\ row.installedPath # None
         /\ UnderRoot(row.installedPath[1])
         /\ row.canDeleteThis

\* C9: a row's installed path is null exactly when no installed version satisfies the
\* exact rule or the suffix rule for its release, and otherwise it is the path of an
\* installed version that satisfies one of them.
C9_NullIffNoMatch ==
  \A row \in Rows :
    LET matching == {v \in Versions : ExactRule(v, row.release) \/ SuffixRule(v, row.release)}
    IN /\ row.installedPath = None <=> matching = {}
       /\ row.installedPath # None => \E v \in matching : row.installedPath = Some(v.path)

\* C10: a row with an installed path is reported owned (deletable) exactly when the
\* path lies under the exclusive installation root.
C10_OwnedIffUnderRoot ==
  \A row \in Rows :
    row.installedPath # None => (row.canDeleteThis <=> UnderRoot(row.installedPath[1]))

\* C11: a row whose installed path lies outside the exclusive root is labelled as an
\* external installation and offers neither a delete nor a download action.
C11_ExternalNotActionable ==
  \A row \in Rows :
    (row.installedPath # None /\ ~UnderRoot(row.installedPath[1]))
      => ActionOf(row) = "external"

\* One download started from an empty installation root; every catalog fetch and
\* every scan succeeds, the download itself succeeds or fails.
NextInstall ==
  \/ Mount
  \/ \E t \in BagToSet(tasks) : FetchOk(t)
  \/ \E t \in BagToSet(tasks) : ScanRead(t)
  \/ \E t \in BagToSet(tasks) : ScanOk(t)
  \/ SuccessTimeout
  \/ \E i \in 1..Len(releases) : Len(downloadCalls) < MaxDownloads /\ ClickDownload(i)
  \/ \E t \in BagToSet(tasks) : ProgressEvent(t)
  \/ \E t \in BagToSet(tasks) : DownloadOk(t)
  \/ \E t \in BagToSet(tasks) : DownloadFail(t)
  \/ \E t \in BagToSet(tasks) : RefreshDone(t)
  \/ \E s \in subs : SubLive(s)
  \/ \E s \in subs : SubGone(s)

SpecInstall == InitDownloads /\ [][NextInstall]_vars

\* The directory named after tag exists under the exclusive root.
OnDisk(tag) == \E k \in 1..Len(disk) : disk[k].path = InstallPath(tag)

\* C12: once a download of a release has completed and the view has settled, the
\* release's row has the directory named after its tag under the exclusive root as
\* its installed path and is owned, whatever the order of the scan responses.
C12_InstalledAfterDownload ==
  Settled =>
    \A row \in Rows :
      (OnDisk(row.release.tag_name)
         /\ \E k \in 1..Len(downloadCalls) : downloadCalls[k] = row.release.tag_name)
        => /\ row.installedPath = Some(InstallPath(row.release.tag_name))
           /\ row.canDeleteThis

\* C13: the phase shown for a session only moves forward: once the extraction notice
\* is shown for the active session, byte-level progress is not shown for it again.
C13_NoBytesAfterExtracting ==
  [][(/\ downloadingTag # None /\ downloadingTag' = downloadingTag
      /\ downloadProgress # None /\ downloadProgress[1].extracting)
       => (downloadProgress' # None /\ downloadProgress'[1].extracting)]_vars

\* C14: a session is not cleared while its download is in flight: as long as a
\* downloadGeProton call has not settled, an active tag remains.
C14_SessionLivesWhileInFlight ==
  InFlight # {} => downloadingTag # None

\* C15: a failed download leaves no residue: every temporary file and every staging
\* directory on disk belongs to a download that is still in flight.
C15_NoResidueAfterFailure ==
  \A a \in scratch : \E t \in InFlight : t.rel.tag_name = a.tag

\* No invocation of handleDownload is running.
NoHandler == \A t \in BagToSet(tasks) : t.kind # "handleDownload"

\* C15 witness: the download that was started has returned to its caller without
\* installing anything (it failed), and nothing is left of it.
C15_Witness ==
  /\ downloadCalls # <<>>
  /\ NoHandler
  /\ ~OnDisk(downloadCalls[1])
  /\ scratch = {}

\* The number of invocations in bag that are suspended at pc.
CountAt(bag, pc) ==
  BagCardinality([t \in {u \in BagToSet(bag) : u.pc = pc} |-> CopiesIn(t, bag)])

\* The number of invocations of handleDownload in bag.
CountDownloads(bag) ==
  BagCardinality([t \in {u \in BagToSet(bag) : u.kind = "handleDownload"} |-> CopiesIn(t, bag)])

\* The step is an explicit action of the user: opening the manager, pressing Retry,
\* pressing Download.
UserStep ==
  \/ mounted' # mounted
  \/ Len(downloadCalls') > Len(downloadCalls)
  \/ RetryView /\ loading'

\* C17: after a catalog fetch has failed (its message is on display, so the user has
\* done nothing since), the catalog fetch is invoked again only by a step of the user.
C17_NoAutomaticRefetch ==
  [][(errorMessage = "fetch" /\ CountAt(tasks', "fetch") > CountAt(tasks, "fetch"))
       => UserStep]_vars

\* C18: a failure is surfaced: the step in which a download call fails (its
\* invocation ends while awaiting the download) leaves the download's error message
\* on display.
C18_DownloadFailureShown ==
  [][(/\ CountDownloads(tasks') < CountDownloads(tasks)
      /\ CountAt(tasks', "download") < CountAt(tasks, "download"))
       => errorMessage' = "download"]_vars

\* A release installed under the root before the manager is opened.
InitInstalled ==
  /\ InitComponent
  /\ catalog = <<RelGE1, RelGE2>>
  /\ disk = <<InstalledEntry(TagGE1)>>

SpecReinstall == InitInstalled /\ [][NextDownloads]_vars

\* C19: while a download of a release is in flight, the row of that release offers
\* no delete action, no delete request is pending for it and no delete call for its
\* path is awaiting its answer.
C19_NoDeleteWhileDownloading ==
  \A t \in InFlight :
    /\ ListEnabled =>
         \A row \in Rows : row.release.tag_name = t.rel.tag_name => ActionOf(row) # "delete"
    /\ pendingDelete # None => pendingDelete[1].release.tag_name # t.rel.tag_name
    /\ \A d \in Running("confirmDelete", "delete") : d.path # InstallPath(t.rel.tag_name)

\* C20: between two successive updates of the progress shown for the active session
\* the downloaded byte count does not decrease.
C20_BytesNeverDecrease ==
  [][(/\ downloadingTag # None /\ downloadingTag' = downloadingTag
      /\ downloadProgress # None /\ downloadProgress' # None)
       => downloadProgress'[1].downloaded >= downloadProgress[1].downloaded]_vars

(***************************************************************************)
(* The progress shown and the session it belongs to.                       *)
(***************************************************************************)

\* The step is the delivery of the next event of a download whose tag is the
\* downloadingTag of the component.
EventOfActiveTag ==
  \E t \in InFlight :
    /\ Some(t.rel.tag_name) = downloadingTag
    /\ tasks' = Put(Take(tasks, t), [t EXCEPT !.sent = t.sent + 1])

\* C21: stored download progress is non-null only while a download is active, and
\* every step that stores a progress value is the delivery of an event whose tag is
\* the active download's tag; events of other tags, events after the session was
\* cleared and events around a re-subscription leave the stored progress alone.
C21_ProgressOfActiveSession ==
  [][/\ downloadProgress' # None => downloadingTag' # None
     /\ (downloadProgress' # downloadProgress /\ downloadProgress' # None)
          => EventOfActiveTag]_vars

(***************************************************************************)
(* Deleting: request, confirmation, command.                               *)
(***************************************************************************)

TagGE10 == <<"GE1", "0">>

\* The manager opened on installs it owns and one it does not.
InitDelete ==
  /\ InitComponent
  /\ catalog = <<RelGE1, RelGE2>>
  /\ disk \in ListsOf({InstalledEntry(TagGE1), InstalledEntry(TagGE2),
                       InstalledEntry(TagGE10), SteamGE1}, MaxInstalled)

NextDelete ==
  \/ Mount
  \/ \E t \in BagToSet(tasks) : FetchOk(t)
  \/ \E t \in BagToSet(tasks) : ScanRead(t)
  \/ \E t \in BagToSet(tasks) : ScanOk(t)
  \/ ErrorTimeout
  \/ SuccessTimeout
  \/ \E i \in 1..Len(releases) : ClickDelete(i)
  \/ Len(deleteCalls) < MaxDeletes /\ ConfirmDelete
  \/ CancelDelete
  \/ \E t \in BagToSet(tasks) : DeleteOk(t)
  \/ \E t \in BagToSet(tasks) : DeleteFail(t)
  \/ \E t \in BagToSet(tasks) : RefreshDone(t)

SpecDelete == InitDelete /\ [][NextDelete]_vars

NamesAt(d, path) == {d[k].display_name : k \in {j \in 1..Len(d) : d[j].path = path}}

\* C27: the name the confirmation dialog shows, and the name the 'Deleted' message
\* will show, is the display name of the installed version at the path being
\* deleted whenever the list holds a version at that path.
C27_NameOfDeletedPath ==
  /\ pendingDelete # None /\ NamesAt(allInstalledVersions, pendingDelete[1].path) # {}
       => FindName(allInstalledVersions, pendingDelete[1].release,
                   pendingDelete[1].path, 1)
            \in NamesAt(allInstalledVersions, pendingDelete[1].path)
  /\ \A t \in Running("confirmDelete", "delete") :
       NamesAt(disk, t.path) # {} => t.name \in NamesAt(disk, t.path)

(***************************************************************************)
(* ProtonDownloader, the release picker of InitialSetup.                   *)
(***************************************************************************)

\* Downloads started from the picker in one run.
MaxPicks == 2

PkTask(kind, tag, path) == [kind |-> kind, tag |-> tag, path |-> path]

PkRunning(kind) == {t \in BagToSet(pkTasks) : t.kind = kind}

\* The isInstalled of the picker's render: some installed name, cut at its first
\* " (", is the release's name or tag.
PkIsInstalled(release) ==
  \E k \in 1..Len(installedVersions) : NameMatches(installedVersions[k], release)

\* The three returns of ProtonDownloader, and the list inside the third.
PkRetryView == pkMounted /\ ~pkLoading /\ pkError # "" /\ pkReleases = <<>>

PkListView == pkMounted /\ ~pkLoading /\ ~PkRetryView /\ ~downloading

\* useEffect(() => { loadReleases() }, []) of a picker that has just been shown.
PkMount ==
  /\ ~pkMounted
  /\ pkMounted' = TRUE
  /\ pkReleases' = <<>>
  /\ selectedRelease' = <<>>
  /\ downloading' = FALSE
  /\ pkLoading' = TRUE
  /\ pkError' = ""
  /\ pkTasks' = Put(pkTasks, PkTask("loadReleases", <<>>, <<>>))
  /\ UNCHANGED <<installedVersions, pickerCalls>>

\* The Retry button: loadReleases again.
PkRetry ==
  /\ PkRetryView
  /\ pkLoading' = TRUE
  /\ pkError' = ""
  /\ pkTasks' = Put(pkTasks, PkTask("loadReleases", <<>>, <<>>))
  /\ UNCHANGED <<lutrisAvailability, setupComplete, checkingSetup, appPc,
                 lutrisInstalled, globalDefault, pkMounted, pkReleases,
                 selectedRelease, downloading, installedVersions, pickerCalls,
                 managerVars, libVars, logVars>>

\* await fetchGeProtonReleases() resolves; finally.
PkFetchOk(t) ==
  /\ t.kind = "loadReleases"
  /\ pkReleases' = catalog
  /\ pkLoading' = FALSE
  /\ pkTasks' = Take(pkTasks, t)
  /\ UNCHANGED <<lutrisAvailability, setupComplete, checkingSetup, appPc,
                 lutrisInstalled, globalDefault, pkMounted, selectedRelease,
                 downloading, pkError, installedVersions, pickerCalls, managerVars, libVars, logVars>>

\* await fetchGeProtonReleases() rejects: catch, finally.
PkFetchFail(t) ==
  /\ t.kind = "loadReleases"
  /\ pkError' = "fetch"
  /\ pkLoading' = FALSE
  /\ pkTasks' = Take(pkTasks, t)
  /\ UNCHANGED <<lutrisAvailability, setupComplete, checkingSetup, appPc,
                 lutrisInstalled, globalDefault, pkMounted, pkReleases,
                 selectedRelease, downloading, installedVersions, pickerCalls,
                 managerVars, libVars, logVars>>

\* onClick of a release's Paper (and the RadioGroup's onChange, its Radio being
\* disabled for an installed release): !isInstalled && setSelectedRelease(tag).
PkSelect(i) ==
  /\ PkListView
  /\ ~PkIsInstalled(pkReleases[i])
  /\ selectedRelease' = pkReleases[i].tag_name
  /\ UNCHANGED <<lutrisAvailability, setupComplete, checkingSetup, appPc,
                 lutrisInstalled, globalDefault, pkMounted, pkReleases, pkLoading,
                 downloading, pkError, installedVersions, pkTasks, pickerCalls,
                 managerVars, libVars, logVars>>

\* The "Download & Install" button, rendered while selectedRelease is not "":
\* handleDownload up to its first await.
PkClickDownload ==
  /\ PkListView
  /\ selectedRelease # <<>>
  /\ \E i \in 1..Len(pkReleases) : pkReleases[i].tag_name = selectedRelease
  /\ downloading' = TRUE
  /\ pkError' = ""
  /\ pickerCalls' = Append(pickerCalls, selectedRelease)
  /\ pkTasks' = Put(pkTasks, PkTask("download", selectedRelease, <<>>))
  /\ UNCHANGED <<lutrisAvailability, setupComplete, checkingSetup, appPc,
                 lutrisInstalled, globalDefault, pkMounted, pkReleases,
                 selectedRelease, pkLoading, installedVersions, managerVars, libVars, logVars>>

\* await downloadGeProton() resolves with the installed path; next await
\* refreshWineVersions().
PkDownloadOk(t) ==
  /\ t.kind = "download"
  /\ disk' = Installed(disk, t.tag)
  /\ pkTasks' = Put(Take(pkTasks, t), PkTask("refresh", t.tag, InstallPath(t.tag)))
  /\ UNCHANGED <<mounted, releases, allInstalledVersions, loading, downloadingTag,
                 downloadProgress, successMessage, errorMessage, deleteConfirmOpen,
                 pendingDelete, tasks, subs, catalog, deleteCalls, downloadCalls,
                 scratch>>
  /\ UNCHANGED <<lutrisAvailability, setupComplete, checkingSetup, appPc,
                 lutrisInstalled, globalDefault, pkMounted, pkReleases,
                 selectedRelease, pkLoading, downloading, pkError,
                 installedVersions, pickerCalls, libVars, logVars>>

\* await downloadGeProton() rejects: catch.
PkDownloadFail(t) ==
  /\ t.kind = "download"
  /\ pkError' = "download"
  /\ downloading' = FALSE
  /\ pkTasks' = Take(pkTasks, t)
  /\ UNCHANGED <<lutrisAvailability, setupComplete, checkingSetup, appPc,
                 lutrisInstalled, globalDefault, pkMounted, pkReleases,
                 selectedRelease, pkLoading, installedVersions, pickerCalls,
                 managerVars, libVars, logVars>>

\* await refreshWineVersions() returns: onDownloadComplete(installedPath), which is
\* InitialSetup.handleDownloadComplete and is not awaited, then
\* setDownloading(false).
PkRefreshDone(t) ==
  /\ t.kind = "refresh"
  /\ downloading' = FALSE
  /\ pkTasks' = Put(Take(pkTasks, t), PkTask("write", t.tag, t.path))
  /\ UNCHANGED <<lutrisAvailability, setupComplete, checkingSetup, appPc,
                 lutrisInstalled, globalDefault, pkMounted, pkReleases,
                 selectedRelease, pkLoading, pkError, installedVersions,
                 pickerCalls, managerVars, libVars, logVars>>

\* handleDownloadComplete: await invoke("set_lutris_global_default_wine_version")
\* rejects: catch (alert).
SetDefaultFail(t) ==
  /\ t.kind = "write"
  /\ pkTasks' = Take(pkTasks, t)
  /\ UNCHANGED <<lutrisAvailability, setupComplete, checkingSetup, appPc,
                 lutrisInstalled, globalDefault, pkMounted, pkReleases,
                 selectedRelease, pkLoading, downloading, pkError,
                 installedVersions, pickerCalls, managerVars, libVars, logVars>>

\* handleDownloadComplete: the write resolves; onComplete() is App's
\* handleSetupComplete.  App renders the library from now on: InitialSetup and its
\* picker leave the screen, and what their pending invocations still do is seen by
\* no component.
SetDefaultOk(t) ==
  /\ t.kind = "write"
  /\ globalDefault' = t.path
  /\ setupComplete' = Some(TRUE)
  /\ pkMounted' = FALSE
  /\ pkTasks' = EmptyBag
  /\ UNCHANGED <<lutrisAvailability, checkingSetup, appPc, lutrisInstalled,
                 pkReleases, selectedRelease, pkLoading, downloading, pkError,
                 installedVersions, pickerCalls, managerVars, libVars, logVars>>

(***************************************************************************)
(* App: the startup checks and the view they gate.                         *)
(***************************************************************************)

\* The four returns of App.
SpinnerView == checkingSetup

NotInstalledView ==
  ~checkingSetup /\ lutrisAvailability # None /\ ~lutrisAvailability[1].is_available

SetupView == ~checkingSetup /\ ~NotInstalledView /\ setupComplete # Some(TRUE)

LibraryView == ~checkingSetup /\ ~NotInstalledView /\ setupComplete = Some(TRUE)

\* useEffect(() => { checkLutrisAvailability() }, []).
AppMount ==
  /\ appPc = "unmounted"
  /\ appPc' = "availability"
  /\ UNCHANGED <<lutrisAvailability, setupComplete, checkingSetup, lutrisInstalled,
                 globalDefault, pkMounted, pkReleases, selectedRelease, pkLoading,
                 downloading, pkError, installedVersions, pkTasks, pickerCalls,
                 managerVars, libVars, logVars>>

\* await invoke("check_lutris_availability") resolves.  Available: the handler goes
\* on to checkDefaultWineVersion; not available: finally.
AvailabilityOk ==
  /\ appPc = "availability"
  /\ lutrisAvailability' = Some([is_available |-> lutrisInstalled])
  /\ IF lutrisInstalled
     THEN appPc' = "default" /\ checkingSetup' = checkingSetup
     ELSE appPc' = "done" /\ checkingSetup' = FALSE
  /\ UNCHANGED <<setupComplete, lutrisInstalled, globalDefault, pkMounted,
                 pkReleases, selectedRelease, pkLoading, downloading, pkError,
                 installedVersions, pkTasks, pickerCalls, managerVars, libVars, logVars>>

\* await invoke("check_lutris_availability") rejects: catch, finally.
AvailabilityFail ==
  /\ appPc = "availability"
  /\ lutrisAvailability' = Some([is_available |-> FALSE])
  /\ appPc' = "done"
  /\ checkingSetup' = FALSE
  /\ UNCHANGED <<setupComplete, lutrisInstalled, globalDefault, pkMounted,
                 pkReleases, selectedRelease, pkLoading, downloading, pkError,
                 installedVersions, pkTasks, pickerCalls, managerVars, libVars, logVars>>

\* The end of checkDefaultWineVersion with setSetupComplete(complete), then the
\* finally of checkLutrisAvailability; InitialSetup is shown, and its picker runs
\* its effect, when setup is not complete.
DefaultChecked(complete) ==
  /\ appPc = "default"
  /\ setupComplete' = Some(complete)
  /\ appPc' = "done"
  /\ checkingSetup' = FALSE
  /\ IF complete
     THEN UNCHANGED <<pkMounted, pkReleases, selectedRelease, pkLoading,
                      downloading, pkError, installedVersions, pkTasks, pickerCalls>>
     ELSE PkMount
  /\ UNCHANGED <<lutrisAvailability, lutrisInstalled, globalDefault, managerVars, libVars, logVars>>

\* A check that takes every answer of the read for a default.
DefaultReadAlwaysKnown == DefaultChecked(TRUE)

\* await invoke("get_lutris_global_default_wine_version") resolves:
\* setSetupComplete(!!defaultWine).
DefaultReadOk == DefaultChecked(globalDefault # <<>>)

\* The read rejects: catch, setSetupComplete(false).
DefaultReadFail == DefaultChecked(FALSE)

\* "Check Again": window.location.reload() starts the application anew.
CheckAgain ==
  /\ NotInstalledView
  /\ lutrisAvailability' = None
  /\ setupComplete' = None
  /\ checkingSetup' = TRUE
  /\ appPc' = "availability"
  /\ UNCHANGED <<lutrisInstalled, globalDefault, pkMounted, pkReleases,
                 selectedRelease, pkLoading, downloading, pkError, installedVersions,
                 pkTasks, pickerCalls, managerVars, libVars, logVars>>

\* The default versions the Lutris configuration may hold at startup.
InitSetup ==
  /\ InitWineRunnerManager
  /\ InitApp
  /\ InitLibrary
  /\ InitGameLog
  /\ gameWine = [g \in Slugs |-> <<>>]
  /\ catalog \in ListsOf({RelGE1, RelGE2}, MaxReleases)
  /\ disk = <<>>
  /\ lutrisInstalled \in BOOLEAN
  /\ globalDefault \in {<<>>, InstallPath(TagGE2)}

PickerNext ==
  \/ PkRetry
  \/ \E t \in BagToSet(pkTasks) : PkFetchOk(t)
  \/ \E t \in BagToSet(pkTasks) : PkFetchFail(t)
  \/ \E i \in 1..Len(pkReleases) : PkSelect(i)
  \/ Len(pickerCalls) < MaxPicks /\ PkClickDownload
  \/ \E t \in BagToSet(pkTasks) : PkDownloadOk(t)
  \/ \E t \in BagToSet(pkTasks) : PkDownloadFail(t)
  \/ \E t \in BagToSet(pkTasks) : PkRefreshDone(t)
  \/ \E t \in BagToSet(pkTasks) : SetDefaultFail(t)
  \/ \E t \in BagToSet(pkTasks) : SetDefaultOk(t)

NextSetup ==
  \/ AppMount
  \/ AvailabilityOk
  \/ AvailabilityFail
  \/ DefaultReadOk
  \/ DefaultReadFail
  \/ CheckAgain
  \/ PickerNext

SpecSetup == InitSetup /\ [][NextSetup]_vars

\* C22: the library view is on screen only when the availability check reported
\* Lutris available and the Lutris configuration holds a global default: one the
\* startup read found, or one initial setup wrote successfully.
C22_LibraryOnlyWhenSetUp ==
  LibraryView =>
    /\ lutrisAvailability = Some([is_available |-> TRUE])
    /\ lutrisInstalled
    /\ globalDefault # <<>>

\* Initial setup was gone through: a release was downloaded from the picker, the
\* write of the default succeeded and the library is on screen.
C22_Witness ==
  /\ LibraryView
  /\ pickerCalls # <<>>
  /\ globalDefault = InstallPath(pickerCalls[Len(pickerCalls)])

(***************************************************************************)
(* The picker under a parent that passes it the installed names.           *)
(***************************************************************************)

\* The display names of the installed versions, as a parent passes them in the
\* installedVersions prop.
NamesOf(d) == [k \in 1..Len(d) |-> d[k].display_name]

InitPicker ==
  /\ InitComponent
  /\ catalog = <<RelGE1, RelGE2>>
  /\ disk = <<>>

\* The parent shows the picker.
MountPicker ==
  /\ PkMount
  /\ UNCHANGED <<lutrisAvailability, setupComplete, checkingSetup, appPc,
                 lutrisInstalled, globalDefault, managerVars, libVars, logVars>>

\* The parent renders again with the installed names it now knows.
ParentRefresh ==
  /\ pkMounted
  /\ installedVersions' = NamesOf(disk)
  /\ installedVersions' # installedVersions
  /\ UNCHANGED <<lutrisAvailability, setupComplete, checkingSetup, appPc,
                 lutrisInstalled, globalDefault, pkMounted, pkReleases,
                 selectedRelease, pkLoading, downloading, pkError, pkTasks,
                 pickerCalls, managerVars, libVars, logVars>>

NextPicker ==
  \/ MountPicker
  \/ ParentRefresh
  \/ PickerNext

SpecPicker == InitPicker /\ [][NextPicker]_vars

MaxPending == 2

\* A Game as the frontend holds it.
GameOf(slug) == [slug |-> slug, wine_version |-> gameWine[slug]]

\* get_games: the games of the Lutris configuration, in a fixed order.
GetGames == <<GameOf("a"), GameOf("b")>>

\* The paths the version selectors offer: those of the installed versions.
VersionChoices == {disk[k].path : k \in 1..Len(disk)}

\* An invocation of GameDetail: the effect's read of the global default ("read"),
\* or handleWineVersionChange at its await ("sent"), answered by the backend with
\* success ("ok") or failure ("failed").
GdTask(pc, slug, version) == [pc |-> pc, slug |-> slug, version |-> version]

\* The effect on [game.slug, game.wine_version] for the game now displayed:
\* setCurrentWineVersion up to its await, if it has one.
SetCurrentWineVersion(game) ==
  IF game.wine_version # <<>>
  THEN /\ selectedWineVersion' = game.wine_version
       /\ gdTasks' = gdTasks
  ELSE /\ selectedWineVersion' = selectedWineVersion
       /\ BagCardinality(gdTasks) < MaxPending
       /\ gdTasks' = Put(gdTasks, GdTask("read", game.slug, <<>>))

\* useEffect of GameProvider: loadGames().
LibMount ==
  /\ libPc = "unmounted"
  /\ libPc' = "loading"
  /\ UNCHANGED <<games, selectedGame, gameWine, selectedWineVersion, gdTasks, written,
                 settingsOpen, defaultWineVersion, smTasks, managerVars, appVars, alerts, logVars>>

\* await getGames() resolves: the first game is selected and GameDetail shows it.
LoadGamesOk ==
  /\ libPc = "loading"
  /\ libPc' = "ready"
  /\ games' = GetGames
  /\ selectedGame' = Some(GetGames[1])
  /\ SetCurrentWineVersion(GetGames[1])
  /\ UNCHANGED <<gameWine, written, settingsOpen, defaultWineVersion, smTasks,
                 managerVars, appVars, alerts, logVars>>

\* await getGames() rejects: catch.
LoadGamesFail ==
  /\ libPc = "loading"
  /\ libPc' = "ready"
  /\ UNCHANGED <<games, selectedGame, gameWine, selectedWineVersion, gdTasks, written,
                 settingsOpen, defaultWineVersion, smTasks, managerVars, appVars, alerts, logVars>>

\* onClick={() => setSelectedGame(game)} of a game of the sidebar; the effect of
\* GameDetail runs when the slug or the wine_version it is given has changed.
SelectGame(i) ==
  /\ libPc = "ready"
  /\ selectedGame # Some(games[i])
  /\ selectedGame' = Some(games[i])
  /\ SetCurrentWineVersion(games[i])
  /\ UNCHANGED <<games, libPc, gameWine, written, settingsOpen, defaultWineVersion,
                 smTasks, managerVars, appVars, alerts, logVars>>

\* await getGlobalDefaultVersion() resolves: setSelectedWineVersion(path || "").
ReadDefaultOk(t) ==
  /\ t.pc = "read"
  /\ selectedWineVersion' = globalDefault
  /\ gdTasks' = Take(gdTasks, t)
  /\ UNCHANGED <<games, selectedGame, libPc, gameWine, written, settingsOpen,
                 defaultWineVersion, smTasks, managerVars, appVars, alerts, logVars>>

\* await getGlobalDefaultVersion() rejects: catch.
ReadDefaultFail(t) ==
  /\ t.pc = "read"
  /\ gdTasks' = Take(gdTasks, t)
  /\ UNCHANGED <<games, selectedGame, libPc, gameWine, selectedWineVersion, written,
                 settingsOpen, defaultWineVersion, smTasks, managerVars, appVars, alerts, logVars>>

\* onChange of the game's version selector: handleWineVersionChange up to its await.
ChangeVersion(v) ==
  /\ selectedGame # None
  /\ v # selectedWineVersion
  /\ BagCardinality(gdTasks) < MaxPending
  /\ gdTasks' = Put(gdTasks, GdTask("sent", selectedGame[1].slug, v))
  /\ UNCHANGED <<games, selectedGame, libPc, gameWine, selectedWineVersion, written,
                 settingsOpen, defaultWineVersion, smTasks, managerVars, appVars, alerts, logVars>>

\* The backend performs update_game_wine_version, or fails to.
OverrideAnswered(t, ok) ==
  /\ t.pc = "sent"
  /\ gameWine' = IF ok THEN [gameWine EXCEPT ![t.slug] = t.version] ELSE gameWine
  /\ written' = IF ok THEN written \cup {t.slug} ELSE written
  /\ gdTasks' = Put(Take(gdTasks, t), [t EXCEPT !.pc = IF ok THEN "ok" ELSE "failed"])
  /\ UNCHANGED <<games, selectedGame, libPc, selectedWineVersion, settingsOpen,
                 defaultWineVersion, smTasks, managerVars, appVars, alerts, logVars>>

\* A handler that shows the chosen version whatever the write answered.
OverrideDoneOptimistic(t) ==
  /\ t.pc \in {"ok", "failed"}
  /\ selectedWineVersion' = t.version
  /\ gdTasks' = Take(gdTasks, t)
  /\ alerts' = alerts
  /\ UNCHANGED <<games, selectedGame, libPc, gameWine, written, settingsOpen,
                 defaultWineVersion, smTasks, managerVars, appVars, logVars>>

\* await updateWineVersion() settles: setSelectedWineVersion(newVersion) when it
\* resolved, the catch (alert) when it rejected.
OverrideDone(t) ==
  /\ t.pc \in {"ok", "failed"}
  /\ selectedWineVersion' = IF t.pc = "ok" THEN t.version ELSE selectedWineVersion
  /\ gdTasks' = Take(gdTasks, t)
  /\ alerts' = IF t.pc = "failed" THEN alerts \cup {"override"} ELSE alerts
  /\ UNCHANGED <<games, selectedGame, libPc, gameWine, written, settingsOpen,
                 defaultWineVersion, smTasks, managerVars, appVars, logVars>>

(***************************************************************************)
(* SettingsModal: the global default.                                      *)
(***************************************************************************)

\* An invocation of SettingsModal: loadSettings at its first await ("versions") or
\* its second ("default"), or handleDefaultWineChange ("sent", "ok", "failed").
SmTask(pc, version) == [pc |-> pc, version |-> version]

\* The settings button: the effect on [open] calls loadSettings.
OpenSettings ==
  /\ libPc = "ready" /\ ~settingsOpen
  /\ BagCardinality(smTasks) < MaxPending
  /\ settingsOpen' = TRUE
  /\ smTasks' = Put(smTasks, SmTask("versions", <<>>))
  /\ UNCHANGED <<games, selectedGame, libPc, gameWine, selectedWineVersion, gdTasks,
                 written, defaultWineVersion, managerVars, appVars, alerts, logVars>>

\* onClose.
CloseSettings ==
  /\ settingsOpen
  /\ settingsOpen' = FALSE
  /\ UNCHANGED <<games, selectedGame, libPc, gameWine, selectedWineVersion, gdTasks,
                 written, defaultWineVersion, smTasks, managerVars, appVars, alerts, logVars>>

\* loadSettings: await getAvailableVersions() resolves.
SettingsVersionsOk(t) ==
  /\ t.pc = "versions"
  /\ smTasks' = Put(Take(smTasks, t), SmTask("default", <<>>))
  /\ UNCHANGED <<games, selectedGame, libPc, gameWine, selectedWineVersion, gdTasks,
                 written, settingsOpen, defaultWineVersion, managerVars, appVars, alerts, logVars>>

\* loadSettings: await getGlobalDefaultVersion() resolves:
\* setDefaultWineVersion(lutrisDefault || "").
SettingsDefaultOk(t) ==
  /\ t.pc = "default"
  /\ defaultWineVersion' = globalDefault
  /\ smTasks' = Take(smTasks, t)
  /\ UNCHANGED <<games, selectedGame, libPc, gameWine, selectedWineVersion, gdTasks,
                 written, settingsOpen, managerVars,
                 lutrisAvailability, setupComplete, checkingSetup, appPc,
                 lutrisInstalled, globalDefault, pkMounted, pkReleases,
                 selectedRelease, pkLoading, downloading, pkError,
                 installedVersions, pkTasks, pickerCalls, alerts, logVars>>

\* loadSettings: one of its awaits rejects: catch.
SettingsLoadFail(t) ==
  /\ t.pc \in {"versions", "default"}
  /\ smTasks' = Take(smTasks, t)
  /\ UNCHANGED <<games, selectedGame, libPc, gameWine, selectedWineVersion, gdTasks,
                 written, settingsOpen, defaultWineVersion, managerVars, appVars, alerts, logVars>>

\* onChange of the default's selector: handleDefaultWineChange up to its await.
ChangeDefault(v) ==
  /\ settingsOpen
  /\ v # defaultWineVersion
  /\ BagCardinality(smTasks) < MaxPending
  /\ smTasks' = Put(smTasks, SmTask("sent", v))
  /\ UNCHANGED <<games, selectedGame, libPc, gameWine, selectedWineVersion, gdTasks,
                 written, settingsOpen, defaultWineVersion, managerVars, appVars, alerts, logVars>>

\* The backend performs set_lutris_global_default_wine_version, or fails to.
DefaultAnswered(t, ok) ==
  /\ t.pc = "sent"
  /\ globalDefault' = IF ok THEN t.version ELSE globalDefault
  /\ smTasks' = Put(Take(smTasks, t), [t EXCEPT !.pc = IF ok THEN "ok" ELSE "failed"])
  /\ UNCHANGED <<games, selectedGame, libPc, gameWine, selectedWineVersion, gdTasks,
                 written, settingsOpen, defaultWineVersion, managerVars,
                 lutrisAvailability, setupComplete, checkingSetup, appPc,
                 lutrisInstalled, pkMounted, pkReleases, selectedRelease, pkLoading,
                 downloading, pkError, installedVersions, pkTasks, pickerCalls, alerts, logVars>>

\* await setGlobalDefaultVersion() settles: setDefaultWineVersion(newVersion) when
\* it resolved, the catch (alert) when it rejected.
DefaultDone(t) ==
  /\ t.pc \in {"ok", "failed"}
  /\ defaultWineVersion' = IF t.pc = "ok" THEN t.version ELSE defaultWineVersion
  /\ smTasks' = Take(smTasks, t)
  /\ alerts' = IF t.pc = "failed" THEN alerts \cup {"default"} ELSE alerts
  /\ UNCHANGED <<games, selectedGame, libPc, gameWine, selectedWineVersion, gdTasks,
                 written, settingsOpen, managerVars, appVars, logVars>>

\* The library reached after setup: two versions installed, one of them the global
\* default, and each game with or without a version of its own.
InitVersions ==
  /\ InitWineRunnerManager
  /\ catalog = <<RelGE1, RelGE2>>
  /\ disk = <<InstalledEntry(TagGE1), InstalledEntry(TagGE2)>>
  /\ InitApp
  /\ lutrisInstalled = TRUE
  /\ globalDefault = InstallPath(TagGE2)
  /\ InitLibrary
  /\ InitGameLog
  /\ gameWine \in [Slugs -> {<<>>, InstallPath(TagGE1)}]

\* Browsing the library and changing the global default; no game's own version is
\* changed.
NextBrowse ==
  \/ LibMount
  \/ LoadGamesOk
  \/ LoadGamesFail
  \/ \E i \in 1..Len(games) : SelectGame(i)
  \/ \E t \in BagToSet(gdTasks) : ReadDefaultOk(t)
  \/ \E t \in BagToSet(gdTasks) : ReadDefaultFail(t)
  \/ OpenSettings
  \/ CloseSettings
  \/ \E t \in BagToSet(smTasks) : SettingsVersionsOk(t)
  \/ \E t \in BagToSet(smTasks) : SettingsDefaultOk(t)
  \/ \E t \in BagToSet(smTasks) : SettingsLoadFail(t)
  \/ \E v \in VersionChoices : ChangeDefault(v)
  \/ \E t \in BagToSet(smTasks), ok \in BOOLEAN : DefaultAnswered(t, ok)
  \/ \E t \in BagToSet(smTasks) : DefaultDone(t)

SpecBrowse == InitVersions /\ [][NextBrowse]_vars

\* The library with a version of its own set for every game.
InitOverridden ==
  /\ InitVersions
  /\ \A g \in Slugs : gameWine[g] = InstallPath(TagGE1)

\* Browsing the library and changing the version of the game displayed.
NextOverride ==
  \/ LibMount
  \/ LoadGamesOk
  \/ \E i \in 1..Len(games) : SelectGame(i)
  \/ \E v \in VersionChoices : ChangeVersion(v)
  \/ \E t \in BagToSet(gdTasks), ok \in BOOLEAN : OverrideAnswered(t, ok)
  \/ \E t \in BagToSet(gdTasks) : OverrideDone(t)

SpecOverride == InitOverridden /\ [][NextOverride]_vars

\* The library with a version of its own set for the first game only.
InitWrites ==
  /\ InitVersions
  /\ gameWine["a"] = InstallPath(TagGE1)
  /\ gameWine["b"] = <<>>

\* Changing the version of the first game and the global default.
NextWrites ==
  \/ LibMount
  \/ LoadGamesOk
  \/ \E v \in VersionChoices : ChangeVersion(v)
  \/ \E t \in BagToSet(gdTasks), ok \in BOOLEAN : OverrideAnswered(t, ok)
  \/ \E t \in BagToSet(gdTasks) : OverrideDone(t)
  \/ OpenSettings
  \/ \E t \in BagToSet(smTasks) : SettingsVersionsOk(t)
  \/ \E t \in BagToSet(smTasks) : SettingsDefaultOk(t)
  \/ \E v \in VersionChoices : ChangeDefault(v)
  \/ \E t \in BagToSet(smTasks), ok \in BOOLEAN : DefaultAnswered(t, ok)
  \/ \E t \in BagToSet(smTasks) : DefaultDone(t)

SpecWrites == InitWrites /\ [][NextWrites]_vars

\* C23: the version shown as selected, for the game and for the global default, is
\* left as it is when a write is started, when the backend answers it, and when the
\* handler of a failed write returns; the handler of a write that succeeded sets it
\* to the chosen path.
C23_FailedWriteKeepsSelection ==
  [][/\ \A t \in BagToSet(gdTasks) :
          /\ (t.pc = "sent"
                /\ \E pc \in {"ok", "failed"} :
                     gdTasks' = Put(Take(gdTasks, t), [t EXCEPT !.pc = pc]))
               => selectedWineVersion' = selectedWineVersion
          /\ (t.pc = "failed" /\ gdTasks' = Take(gdTasks, t))
               => selectedWineVersion' = selectedWineVersion
          /\ (t.pc = "ok" /\ gdTasks' = Take(gdTasks, t))
               => selectedWineVersion' = t.version
     /\ \A t \in BagToSet(smTasks) :
          /\ (t.pc = "sent"
                /\ \E pc \in {"ok", "failed"} :
                     smTasks' = Put(Take(smTasks, t), [t EXCEPT !.pc = pc]))
               => defaultWineVersion' = defaultWineVersion
          /\ (t.pc = "failed" /\ smTasks' = Take(smTasks, t))
               => defaultWineVersion' = defaultWineVersion
          /\ (t.pc = "ok" /\ smTasks' = Take(smTasks, t))
               => defaultWineVersion' = t.version
     /\ \A v \in VersionChoices :
          /\ (\E g \in Slugs : gdTasks' = Put(gdTasks, GdTask("sent", g, v)))
               => selectedWineVersion' = selectedWineVersion
          /\ smTasks' = Put(smTasks, SmTask("sent", v))
               => defaultWineVersion' = defaultWineVersion]_vars

\* A write of a game's version and a write of the global default have both failed,
\* their handlers have returned, and neither selector shows the path that was chosen:
\* the configuration still holds what the selectors show.
C23_Witness ==
  /\ selectedGame # None
  /\ gdTasks = EmptyBag /\ smTasks = EmptyBag
  /\ alerts = {"override", "default"}
  /\ written = {}
  /\ selectedWineVersion = gameWine[selectedGame[1].slug]
  /\ defaultWineVersion = globalDefault

\* C24: whenever the game displayed has a wine version of its own, the version shown
\* as selected is that version, whatever reads of the global default are in flight.
C24_OverrideTakesPrecedence ==
  (selectedGame # None /\ selectedGame[1].wine_version # <<>>)
    => selectedWineVersion = selectedGame[1].wine_version

\* C25: once an override write for a game has succeeded and no write for it is in
\* flight, the version shown while that game is displayed is the one last written
\* for it.
C25_OverridePersists ==
  (/\ selectedGame # None
   /\ selectedGame[1].slug \in written
   /\ \A t \in BagToSet(gdTasks) : t.slug = selectedGame[1].slug => t.pc = "read")
    => (gdTasks = EmptyBag => selectedWineVersion = gameWine[selectedGame[1].slug])

(***************************************************************************)
(* GameLog: the buffer of log lines and its listener.                      *)
(***************************************************************************)

MAX_LOG_LINES == 1000

\* The lengths of payload.lines the backend emits: a single line, and a chunk that
\* fills more than half of the buffer.
ShortChunk == 1

LongChunk == 600

\* Log events the backend emits in one run, and listeners asked for at once.
MaxLogEvents == 2

MaxListeners == 2

\* A listener the effect asked for with onGameLog(slug, ...): live once listen() has
\* resolved; orphan once the cleanup of its effect has run without an unlisten
\* function to call.
Listener(slug) == [slug |-> slug, live |-> FALSE, orphan |-> FALSE]

\* A handler that keeps every line.
KeepAll(newLines) == newLines

\* newLines.length > MAX_LOG_LINES ? newLines.slice(-MAX_LOG_LINES) : newLines
KeepLast(newLines) ==
  IF Len(newLines) > MAX_LOG_LINES
  THEN SubSeq(newLines, Len(newLines) - MAX_LOG_LINES + 1, Len(newLines))
  ELSE newLines

\* The cleanup of the listener effect: if (unlistenFn) unlistenFn().  A listener
\* whose listen() has resolved is removed; for one still pending unlistenFn is null,
\* nothing is called, and the function that arrives later is only stored.
CleanedUp(bag) ==
  LET kept == {l \in BagToSet(bag) : l.orphan \/ ~l.live}
  IN [l \in {[k EXCEPT !.orphan = TRUE] : k \in kept} |->
        (IF l \in kept THEN CopiesIn(l, bag) ELSE 0)
        + (IF [l EXCEPT !.orphan = FALSE] \in kept
           THEN CopiesIn([l EXCEPT !.orphan = FALSE], bag) ELSE 0)]

\* The listener effect run for the props (slug, isRunning), after the cleanup of its
\* previous run.
ListenerEffect(bag, slug, isRunning) ==
  IF isRunning THEN Put(CleanedUp(bag), Listener(slug)) ELSE CleanedUp(bag)

\* GameLog is shown: both effects run for the first time.
LogMount(slug, isRunning) ==
  /\ ~logMounted
  /\ logMounted' = TRUE
  /\ logSlug' = slug
  /\ logRunning' = isRunning
  /\ logLines' = <<>>
  /\ received' = <<>>
  /\ listeners' = ListenerEffect(listeners, slug, isRunning)
  /\ UNCHANGED <<lineNo, logEvents, managerVars, appVars, libVars>>

\* The parent passes another slug: the clear effect and the listener effect run.
Display(slug) ==
  /\ logMounted
  /\ slug # logSlug
  /\ logSlug' = slug
  /\ logLines' = <<>>
  /\ received' = <<>>
  /\ listeners' = ListenerEffect(listeners, slug, logRunning)
  /\ BagCardinality(listeners') <= MaxListeners
  /\ UNCHANGED <<logMounted, logRunning, lineNo, logEvents, managerVars, appVars,
                 libVars>>

\* The parent passes another isRunning: the listener effect runs.
SetRunning(isRunning) ==
  /\ logMounted
  /\ isRunning # logRunning
  /\ logRunning' = isRunning
  /\ listeners' = ListenerEffect(listeners, logSlug, isRunning)
  /\ BagCardinality(listeners') <= MaxListeners
  /\ UNCHANGED <<logMounted, logSlug, logLines, received, lineNo, logEvents,
                 managerVars, appVars, libVars>>

\* listen() of a listener resolves: setupListener().then(fn => { unlistenFn = fn }).
ListenResolved(l) ==
  /\ ~l.live
  /\ listeners' = Put(Take(listeners, l), [l EXCEPT !.live = TRUE])
  /\ UNCHANGED <<logMounted, logSlug, logRunning, logLines, received, lineNo,
                 logEvents, managerVars, appVars, libVars>>

\* The lines of one event: n lines of the game slug, numbered on from lineNo.
LinesOf(slug, n) == [i \in 1..n |-> <<slug, lineNo + i>>]

\* The lines the handlers are given when an event is delivered to k listeners.
RECURSIVE Repeated(_, _)
Repeated(lines, k) == IF k = 0 THEN <<>> ELSE lines \o Repeated(lines, k - 1)

\* The live listeners of "game-log:<slug>".
LiveFor(slug) ==
  BagCardinality([l \in {x \in BagToSet(listeners) : x.live /\ x.slug = slug}
                    |-> CopiesIn(l, listeners)])

\* The backend emits "game-log:<slug>" with n new lines; the callback of every live
\* listener of that event appends them.
LogEvent(slug, n) ==
  /\ logEvents < MaxLogEvents
  /\ logEvents' = logEvents + 1
  /\ lineNo' = lineNo + n
  /\ LET given == Repeated(LinesOf(slug, n), LiveFor(slug)) IN
     /\ logLines' = KeepLast(logLines \o given)
     /\ received' = received \o given
  /\ UNCHANGED <<logMounted, logSlug, logRunning, listeners, managerVars, appVars,
                 libVars>>

NextLog ==
  \/ \E g \in Slugs, r \in BOOLEAN : LogMount(g, r)
  \/ \E g \in Slugs : Display(g)
  \/ \E r \in BOOLEAN : SetRunning(r)
  \/ \E l \in BagToSet(listeners) : ListenResolved(l)
  \/ \E g \in Slugs, n \in {ShortChunk, LongChunk} : LogEvent(g, n)

\* GameLog not yet rendered; the manager's catalog and disk play no part.
InitLog ==
  /\ InitComponent
  /\ catalog = <<>>
  /\ disk = <<>>

SpecLog == InitLog /\ [][NextLog]_vars

\* The last n elements of seq, all of it when it is shorter.
Latest(seq, n) ==
  IF Len(seq) <= n THEN seq ELSE [i \in 1..n |-> seq[Len(seq) - n + i]]

\* C29: after every step the buffer holds at most 1000 lines, which are the most
\* recent of the lines received since it was last emptied, in arrival order; and a
\* step that changes the displayed slug empties it.
C29_BufferBounded ==
  [][/\ Len(logLines') <= MAX_LOG_LINES
     /\ logLines' = Latest(received', MAX_LOG_LINES)
     /\ logSlug' # logSlug => logLines' = <<>>]_vars

\* More than 1000 lines were received and the buffer holds the last 1000 of them.
C29_Witness ==
  /\ Len(received) > MAX_LOG_LINES
  /\ Len(logLines) = MAX_LOG_LINES
  /\ logLines[MAX_LOG_LINES] = received[Len(received)]

\* C30: a step that appends to the buffer is taken while isRunning holds, and every
\* line it appends is a line of the slug displayed.
C30_LinesOnlyFromDisplayedRunningGame ==
  [][(logLines' # logLines /\ logLines' # <<>>)
       => /\ logRunning
          /\ logLines'[Len(logLines')][1] = logSlug]_vars


==============================================================================
